---- MODULE Spec2Model ----
(***************************************************************************)
(* A model of the two programs of the repository:                          *)
(*   heredity.py : exact inference over a pedigree by enumeration of all   *)
(*                 gene/trait hypotheses, accumulation and normalisation;  *)
(*   pagerank.py : PageRank by sampling a random walk and by iterating the *)
(*                 recurrence until it converges.                          *)
(* Probabilities are exact rationals.  A rational is an arbitrary-size     *)
(* natural numerator (a little-endian sequence of limbs) over a            *)
(* denominator that is either implicit (heredity: fixed by the pedigree)   *)
(* or carried beside it (pagerank).                                        *)
(***************************************************************************)
EXTENDS Integers, Sequences, FiniteSets

VARIABLES
    prog,           \* which program runs: "heredity", "sample" or "iterate"
    \* ---- heredity.py
    people,         \* load_data's result: person -> [mother, father, trait]
    probabilities,  \* main's accumulator: person -> gene/trait buckets
    subsets,        \* the list powerset(names) the two outer loops run over
    two_sets,       \* the list powerset(names - one_gene) of the innermost loop
    ti, oi, wi,     \* positions of the three nested loops of main
    calls,          \* number of joint_probability/update calls so far
    seen,           \* the hypotheses those calls were made on
    hpc,            \* "enumerate", "done" or "error"
    \* ---- pagerank.py
    corpus,         \* page -> set of pages it links to
    damping,        \* damping factor, in units of 1/DampDen
    n,              \* sample_pagerank's n
    sample,         \* sample_pagerank's current sample
    sample_count,   \* sample_pagerank's dict of counts (a function on its keys)
    drawn,          \* samples drawn so far
    spc,            \* "start", "loop", "return" or "done"
    ranks,          \* the mapping sample_pagerank returns
    pagerank,       \* iterate_pagerank's current vector [num, den]
    previous,       \* the vector the last iteration started from
    iterations,     \* passes of the while loop so far
    ipc             \* "loop" or "done"

hvars == <<people, probabilities, subsets, two_sets, ti, oi, wi, calls, seen, hpc>>
svars == <<n, sample, sample_count, drawn, spc, ranks>>
ivars == <<pagerank, previous, iterations, ipc>>
vars == <<prog, hvars, corpus, damping, svars, ivars>>

----------------------------------------------------------------------------
(* Bounds of the model.                                                    *)
MaxPeople == 3
MaxPages == 3
MaxSamplePages == 2
MaxFan == 2
MaxSamples == 3
MaxIterations == 60

----------------------------------------------------------------------------
(* Exact arithmetic on naturals of any size: little-endian limbs.          *)
Base == 10^5

RECURSIVE BNorm(_)
BNorm(a) ==
    IF a = <<>> THEN a
    ELSE IF a[Len(a)] = 0 THEN BNorm(SubSeq(a, 1, Len(a) - 1)) ELSE a

RECURSIVE BFromInt(_)
BFromInt(x) == IF x = 0 THEN <<>> ELSE <<x % Base>> \o BFromInt(x \div Base)

RECURSIVE BAddC(_, _, _)
BAddC(a, b, c) ==
    IF a = <<>> /\ b = <<>> THEN BFromInt(c)
    ELSE LET x == IF a = <<>> THEN 0 ELSE Head(a)
             y == IF b = <<>> THEN 0 ELSE Head(b)
             s == x + y + c
         IN  <<s % Base>> \o BAddC(IF a = <<>> THEN a ELSE Tail(a),
                                   IF b = <<>> THEN b ELSE Tail(b),
                                   s \div Base)

BAdd(a, b) == BAddC(a, b, 0)

RECURSIVE BMulC(_, _, _)
BMulC(a, k, c) ==
    IF a = <<>> THEN BFromInt(c)
    ELSE LET s == Head(a) * k + c
         IN  <<s % Base>> \o BMulC(Tail(a), k, s \div Base)

\* a * k for a small natural k
BMul(a, k) == IF k = 0 THEN <<>> ELSE BMulC(a, k, 0)

BLess(a, b) ==
    \/ Len(a) < Len(b)
    \/ /\ Len(a) = Len(b)
       /\ \E i \in 1..Len(a) :
            /\ a[i] < b[i]
            /\ \A j \in (i + 1)..Len(a) : a[j] = b[j]

RECURSIVE BSubC(_, _, _)
BSubC(a, b, c) ==
    IF a = <<>> THEN <<>>
    ELSE LET y == IF b = <<>> THEN 0 ELSE Head(b)
             s == Head(a) - y - c
         IN  <<IF s < 0 THEN s + Base ELSE s>>
             \o BSubC(Tail(a), IF b = <<>> THEN b ELSE Tail(b),
                      IF s < 0 THEN 1 ELSE 0)

\* |a - b|
BAbsDiff(a, b) == IF BLess(a, b) THEN BNorm(BSubC(b, a, 0)) ELSE BNorm(BSubC(a, b, 0))

RECURSIVE BSum(_, _)
\* the sum of f[x] over x in S
BSum(f, S) ==
    IF S = {} THEN <<>>
    ELSE LET x == CHOOSE y \in S : TRUE IN BAdd(f[x], BSum(f, S \ {x}))

RECURSIVE Gcd(_, _)
Gcd(a, b) == IF b = 0 THEN a ELSE Gcd(b, a % b)

Lcm(a, b) == (a \div Gcd(a, b)) * b

----------------------------------------------------------------------------
(* heredity.py                                                             *)

\* people[person]['mother'] is None
NoneName == 0

\* PROBS, in hundredths
Hundredths == 10^2
PROBS_gene == [g \in 0..2 |-> CASE g = 2 -> 1 [] g = 1 -> 3 [] g = 0 -> 96]
PROBS_trait ==
    [g \in 0..2 |->
        CASE g = 2 -> [t \in BOOLEAN |-> IF t THEN 65 ELSE 35]
          [] g = 1 -> [t \in BOOLEAN |-> IF t THEN 56 ELSE 44]
          [] g = 0 -> [t \in BOOLEAN |-> IF t THEN 1 ELSE 99]]
PROBS_mutation == 1

names == DOMAIN people

RECURSIVE combinations(_, _)
\* itertools.combinations(s, r): the r-element subsets of the list s, in order
combinations(s, r) ==
    IF r = 0 THEN <<{}>>
    ELSE IF Len(s) < r THEN <<>>
    ELSE LET with == combinations(Tail(s), r - 1)
         IN  [i \in 1..Len(with) |-> {Head(s)} \cup with[i]]
             \o combinations(Tail(s), r)

RECURSIVE list(_)
\* list(s) of a set: its elements in some order (here ascending)
list(S) ==
    IF S = {} THEN <<>>
    ELSE LET m == CHOOSE x \in S : \A y \in S : x <= y
         IN  <<m>> \o list(S \ {m})

RECURSIVE chain(_, _)
\* itertools.chain.from_iterable(combinations(s, r) for r in range(from, len(s) + 1))
chain(s, from) ==
    IF from > Len(s) THEN <<>>
    ELSE combinations(s, from) \o chain(s, from + 1)

powerset(S) == chain(list(S), 0)

\* a bug: only the people known to have the trait are checked
fails_evidence_known_true(have_trait) ==
    \E person \in names :
        people[person].trait = "True" /\ person \notin have_trait

\* main's fails_evidence
fails_evidence(have_trait) ==
    \E person \in names :
        /\ people[person].trait # "None"
        /\ (people[person].trait = "True") # (person \in have_trait)

\* a bug: the cases of two copies and of no copy exchanged
pass_prob_swapped(parent, one_gene, two_genes) ==
    IF parent \in two_genes THEN PROBS_mutation
    ELSE IF parent \in one_gene THEN 50
    ELSE Hundredths - PROBS_mutation

\* the probability a parent passes the gene, in hundredths
pass_prob(parent, one_gene, two_genes) ==
    IF parent \in two_genes THEN Hundredths - PROBS_mutation
    ELSE IF parent \in one_gene THEN 50
    ELSE PROBS_mutation

\* the factors person_prob is multiplied by: <<gene factor, trait factor>>
person_factors(person, one_gene, two_genes, have_trait) ==
    LET genes == IF person \in two_genes THEN 2
                 ELSE IF person \in one_gene THEN 1 ELSE 0
        trait == person \in have_trait
        mother == people[person].mother
        father == people[person].father
        gene_prob == PROBS_gene[genes]
        trait_prob == PROBS_trait[genes][trait]
        pass_mother == pass_prob(mother, one_gene, two_genes)
        pass_father == pass_prob(father, one_gene, two_genes)
    IN  IF mother = NoneName
        THEN <<gene_prob, trait_prob>>
        ELSE <<IF genes = 2 THEN pass_mother * pass_father
               ELSE IF genes = 1
                    THEN pass_mother * (Hundredths - pass_father)
                         + (Hundredths - pass_mother) * pass_father
               ELSE (Hundredths - pass_mother) * (Hundredths - pass_father),
               trait_prob>>

RECURSIVE joint_loop(_, _, _, _, _)
joint_loop(person, joint_prob, one_gene, two_genes, have_trait) ==
    IF person > Len(people) THEN joint_prob
    ELSE LET f == person_factors(person, one_gene, two_genes, have_trait)
         IN  joint_loop(person + 1, BMul(BMul(joint_prob, f[1]), f[2]),
                        one_gene, two_genes, have_trait)

\* the joint probability, as a numerator over the pedigree's denominator
joint_probability(one_gene, two_genes, have_trait) ==
    joint_loop(1, <<1>>, one_gene, two_genes, have_trait)

update(probs, one_gene, two_genes, have_trait, p) ==
    [person \in DOMAIN probs |->
        LET g == IF person \in two_genes THEN 2
                 ELSE IF person \in one_gene THEN 1 ELSE 0
            t == person \in have_trait
        IN  [gene |-> [probs[person].gene EXCEPT ![g] = BAdd(@, p)],
             trait |-> [probs[person].trait EXCEPT ![t] = BAdd(@, p)]]]

\* normalize divides by a sum of zero
normalize_fails(probs) ==
    \E person \in DOMAIN probs :
        \/ BSum(probs[person].gene, 0..2) = <<>>
        \/ BSum(probs[person].trait, BOOLEAN) = <<>>

\* every bucket divided by its distribution's sum: a fraction <<num, den>>
normalize(probs) ==
    [person \in DOMAIN probs |->
        LET sum_gene_distribution == BSum(probs[person].gene, 0..2)
            sum_trait_distribution == BSum(probs[person].trait, BOOLEAN)
        IN  [gene |-> [g \in 0..2 |->
                          <<probs[person].gene[g], sum_gene_distribution>>],
             trait |-> [t \in BOOLEAN |->
                          <<probs[person].trait[t], sum_trait_distribution>>]]]

\* a bug: two_genes ranges over the subsets of all names
remaining_all(one_gene) == names

\* names - one_gene, the set the innermost loop takes the subsets of
remaining(one_gene) == names \ one_gene

\* The pedigrees the model loads: k people; person 1 names as mother None,
\* person 2 or the name k + 1, and as father None, person 3 or the name
\* k + 1 (a name above k is not in the pedigree); everyone else has no
\* parents; everyone's trait is "1", "0" or blank.
Pedigrees ==
    UNION {
        { [person \in 1..k |->
              [mother |-> IF person = 1 THEN par[1] ELSE NoneName,
               father |-> IF person = 1 THEN par[2] ELSE NoneName,
               trait |-> ev[person]]] :
            par \in {NoneName, 2, k + 1} \X {NoneName, 3, k + 1},
            ev \in [1..k -> {"True", "False", "None"}] } :
        k \in 1..MaxPeople }

ZeroProbabilities(ped) ==
    [person \in DOMAIN ped |->
        [gene |-> [g \in 0..2 |-> <<>>], trait |-> [t \in BOOLEAN |-> <<>>]]]

IdlePage == [num |-> <<>>, den |-> <<>>]

HInit ==
    /\ prog = "heredity"
    /\ people \in Pedigrees
    /\ probabilities = ZeroProbabilities(people)
    /\ subsets = powerset(names)
    /\ two_sets = powerset(remaining(powerset(names)[1]))
    /\ ti = 1 /\ oi = 1 /\ wi = 1
    /\ calls = 0
    /\ seen = {}
    /\ hpc = "enumerate"
    /\ corpus = <<>> /\ damping = 0
    /\ n = 0 /\ sample = 0 /\ sample_count = <<>> /\ drawn = 0
    /\ spc = "idle" /\ ranks = <<>>
    /\ pagerank = IdlePage /\ previous = IdlePage
    /\ iterations = 0 /\ ipc = "idle"

\* The hypothesis the loops of main are at.
cur_have_trait == subsets[ti]
cur_one_gene == subsets[oi]
cur_two_genes == two_sets[wi]

\* `continue`: the have_trait set contradicts the evidence
SkipHaveTrait ==
    /\ prog = "heredity" /\ hpc = "enumerate"
    /\ ti <= Len(subsets)
    /\ fails_evidence(cur_have_trait)
    /\ ti' = ti + 1
    /\ UNCHANGED <<prog, people, probabilities, subsets, two_sets, oi, wi,
                   calls, seen, hpc,
                   corpus, damping, svars, ivars>>

\* one pass of the innermost loop body: joint_probability, then update
Hypothesis ==
    /\ prog = "heredity" /\ hpc = "enumerate"
    /\ ti <= Len(subsets)
    /\ ~fails_evidence(cur_have_trait)
    /\ LET p == joint_probability(cur_one_gene, cur_two_genes, cur_have_trait)
       IN  probabilities' =
               update(probabilities, cur_one_gene, cur_two_genes, cur_have_trait, p)
    /\ calls' = calls + 1
    /\ seen' = seen \cup {<<cur_one_gene, cur_two_genes, cur_have_trait>>}
    /\ IF wi < Len(two_sets)
       THEN wi' = wi + 1 /\ UNCHANGED <<oi, ti, two_sets>>
       ELSE /\ wi' = 1
            /\ IF oi < Len(subsets)
               THEN oi' = oi + 1 /\ UNCHANGED ti
               ELSE oi' = 1 /\ ti' = ti + 1
            /\ two_sets' = powerset(remaining(subsets[oi']))
    /\ UNCHANGED <<prog, people, subsets, hpc, corpus, damping, svars, ivars>>

\* the loops are over: normalize(probabilities)
Normalize ==
    /\ prog = "heredity" /\ hpc = "enumerate"
    /\ ti > Len(subsets)
    /\ IF normalize_fails(probabilities)
       THEN hpc' = "error" /\ UNCHANGED probabilities
       ELSE hpc' = "done" /\ probabilities' = normalize(probabilities)
    /\ UNCHANGED <<prog, people, subsets, two_sets, ti, oi, wi, calls, seen,
                   corpus, damping, svars, ivars>>

HNext == SkipHaveTrait \/ Hypothesis \/ Normalize

SpecHeredity == HInit /\ [][HNext]_vars

----------------------------------------------------------------------------
(* pagerank.py                                                             *)

\* DAMPING = 0.85, as <<numerator, denominator>>
DAMPING == <<17, 20>>

\* the 0.001 of the convergence test is 1 / ThresholdInv
ThresholdInv == 1000

pages == DOMAIN corpus

\* crawl's results on k pages: no page links to itself or outside the corpus
AllCorpora(k) ==
    {c \in [1..k -> SUBSET (1..k)] : \A page \in 1..k : page \notin c[page]}

\* a corpus of a + b + 1 pages: pages 1..a link to nothing, page a + 1 links
\* to each of them, and the b pages after it link to page a + 1
Funnel(a, b) ==
    [page \in 1..(a + b + 1) |->
        IF page <= a THEN {}
        ELSE IF page = a + 1 THEN 1..a
        ELSE {a + 1}]

RECURSIVE LcmOver(_, _)
LcmOver(c, S) ==
    IF S = {} THEN 1
    ELSE LET i == CHOOSE x \in S : TRUE
             r == LcmOver(c, S \ {i})
         IN  IF c[i] = {} THEN r ELSE Lcm(Cardinality(c[i]), r)

\* a common multiple of len(corpus) and of every len(corpus[i]) > 0: the
\* quotients by these lengths are taken in units of 1 / Unit(c)
Unit(c) == Lcm(Len(c), LcmOver(c, DOMAIN c))

\* a bug: a page without links gets no special case
transition_model_links_only(c, page, d) ==
    LET probability_linked ==
            IF c[page] = {} THEN 0
            ELSE d[1] * (Unit(c) \div Cardinality(c[page]))
        probability_unlinked == (d[2] - d[1]) * (Unit(c) \div Len(c))
    IN  [q \in DOMAIN c |->
            IF q \in c[page]
            THEN probability_unlinked + probability_linked
            ELSE probability_unlinked]

\* transition_model(corpus, page, damping_factor): the distribution, each
\* value in units of 1 / (d[2] * Unit(c))
transition_model(c, page, d) ==
    LET total_pages == Len(c)
        linked_pages == IF Cardinality(c[page]) = 0 THEN DOMAIN c ELSE c[page]
        total_linked_pages == Cardinality(linked_pages)
        probability_linked == d[1] * (Unit(c) \div total_linked_pages)
        probability_unlinked == (d[2] - d[1]) * (Unit(c) \div total_pages)
    IN  [q \in DOMAIN c |->
            IF q \in linked_pages
            THEN probability_unlinked + probability_linked
            ELSE probability_unlinked]

\* ---- sample_pagerank

\* random.choices(pages, probabilities): a page of positive weight
choices(c, page, d) == {q \in DOMAIN c : transition_model(c, page, d)[q] > 0}

\* a bug: the count is set to 1 instead of incremented
count_sample_reset(counts, s) ==
    [q \in DOMAIN counts \cup {s} |-> IF q = s THEN 1 ELSE counts[q]]

\* sample_count[sample] = sample_count.get(sample, 0) + 1
count_sample(counts, s) ==
    [q \in DOMAIN counts \cup {s} |->
        IF q = s THEN (IF s \in DOMAIN counts THEN counts[s] ELSE 0) + 1
        ELSE counts[q]]

\* {page: count / n for page, count in sample_count.items()}
page_rank_distribution(counts, total) ==
    [page \in DOMAIN counts |-> <<counts[page], total>>]

SInit ==
    /\ prog = "sample"
    /\ corpus \in UNION {AllCorpora(k) : k \in 1..MaxSamplePages}
    /\ damping \in {<<0, 20>>, <<10, 20>>, DAMPING, <<20, 20>>}
    /\ n \in 1..MaxSamples
    /\ sample = 0 /\ sample_count = <<>> /\ drawn = 0
    /\ spc = "start" /\ ranks = <<>>
    /\ people = <<>> /\ probabilities = <<>>
    /\ subsets = <<>> /\ two_sets = <<>>
    /\ ti = 0 /\ oi = 0 /\ wi = 0 /\ calls = 0 /\ seen = {} /\ hpc = "idle"
    /\ pagerank = IdlePage /\ previous = IdlePage
    /\ iterations = 0 /\ ipc = "idle"

\* sample = random.choice(pages); sample_count = {sample: 1}
FirstSample ==
    /\ prog = "sample" /\ spc = "start"
    /\ \E first \in pages :
          /\ sample' = first
          /\ sample_count' = [q \in {first} |-> 1]
    /\ drawn' = 1
    /\ spc' = "loop"
    /\ UNCHANGED <<prog, hvars, corpus, damping, n, ranks, ivars>>

\* one pass of `for _ in range(n-1)`
NextSample ==
    /\ prog = "sample" /\ spc = "loop"
    /\ drawn < n
    /\ \E next \in choices(corpus, sample, damping) :
          /\ sample' = next
          /\ sample_count' = count_sample(sample_count, next)
    /\ drawn' = drawn + 1
    /\ UNCHANGED <<prog, hvars, corpus, damping, n, spc, ranks, ivars>>

\* the loop is over: build and return page_rank_distribution
ReturnSample ==
    /\ prog = "sample" /\ spc = "loop"
    /\ drawn = n
    /\ ranks' = page_rank_distribution(sample_count, n)
    /\ spc' = "done"
    /\ UNCHANGED <<prog, hvars, corpus, damping, n, sample, sample_count,
                   drawn, ivars>>

SNext == FirstSample \/ NextSample \/ ReturnSample

SpecSample == SInit /\ [][SNext]_vars

\* ---- iterate_pagerank

\* pagerank = {page: 1 / N for page in corpus}
initial_pagerank(c) ==
    [num |-> [page \in DOMAIN c |-> <<1>>], den |-> BFromInt(Len(c))]

\* a bug: the special case of a page that links to nothing is missing
link_weight_no_dangling(c, i, page, d) ==
    IF page \in c[i] THEN d[1] * (Unit(c) \div Cardinality(c[i])) ELSE 0

\* what page i adds to pr_link of `page`, as a multiple of rank[i] in units of
\* 1 / (d[2] * Unit(c))
link_weight(c, i, page, d) ==
    IF Cardinality(c[i]) = 0 THEN d[1] * (Unit(c) \div Len(c))
    ELSE IF page \in c[i] THEN d[1] * (Unit(c) \div Cardinality(c[i]))
    ELSE 0

RECURSIVE pr_link(_, _, _, _, _)
\* the loop `for i in corpus` for one page, from page i on
pr_link(c, rank, i, page, d) ==
    IF i > Len(c) THEN <<>>
    ELSE BAdd(BMul(rank.num[i], link_weight(c, i, page, d)),
              pr_link(c, rank, i + 1, page, d))

\* one pass of the body of `while True`: new_pagerank, over den * d[2] * Unit(c)
new_pagerank(c, rank, d) ==
    LET pr_general == BMul(rank.den, (d[2] - d[1]) * (Unit(c) \div Len(c)))
    IN  [num |-> [page \in DOMAIN c |->
                     BAdd(pr_general, pr_link(c, rank, 1, page, d))],
         den |-> BMul(rank.den, d[2] * Unit(c))]

\* |old[page] - new[page]|, in units of 1 / new.den, where new.den is
\* old.den * scale
change(old, new, page, scale) == BAbsDiff(BMul(old.num[page], scale), new.num[page])

\* a bug: any(...) instead of all(...)
converged_any(c, old, new, d) ==
    \E page \in DOMAIN c :
        BLess(BMul(change(old, new, page, d[2] * Unit(c)), ThresholdInv), new.den)

\* a bug: the comparison reversed
converged_reversed(c, old, new, d) ==
    \A page \in DOMAIN c :
        BLess(new.den, BMul(change(old, new, page, d[2] * Unit(c)), ThresholdInv))

\* all(abs(pagerank[page] - new_pagerank[page]) < 0.001 for page in corpus)
converged(c, old, new, d) ==
    \A page \in DOMAIN c :
        BLess(BMul(change(old, new, page, d[2] * Unit(c)), ThresholdInv), new.den)

Funnels == {Funnel(a, b) : a \in 1..MaxFan, b \in 1..MaxFan}

IInit ==
    /\ prog = "iterate"
    /\ corpus \in UNION {AllCorpora(k) : k \in 1..MaxPages} \cup Funnels
    /\ damping \in {<<0, 20>>, <<10, 20>>, DAMPING}
    /\ pagerank = initial_pagerank(corpus)
    /\ previous = initial_pagerank(corpus)
    /\ iterations = 0
    /\ ipc = "loop"
    /\ n = 0 /\ sample = 0 /\ sample_count = <<>> /\ drawn = 0
    /\ spc = "idle" /\ ranks = <<>>
    /\ people = <<>> /\ probabilities = <<>>
    /\ subsets = <<>> /\ two_sets = <<>>
    /\ ti = 0 /\ oi = 0 /\ wi = 0 /\ calls = 0 /\ seen = {} /\ hpc = "idle"

\* one pass of `while True`: compute new_pagerank, test, assign, maybe break
Iterate ==
    /\ prog = "iterate" /\ ipc = "loop"
    /\ iterations < MaxIterations
    /\ \E new \in {new_pagerank(corpus, pagerank, damping)} :
           /\ pagerank' = new
           /\ previous' = pagerank
           /\ ipc' = IF converged(corpus, pagerank, new, damping)
                     THEN "done" ELSE "loop"
    /\ iterations' = iterations + 1
    /\ UNCHANGED <<prog, hvars, corpus, damping, svars>>

INext == Iterate

SpecIterate == IInit /\ [][INext]_vars

\* Iterate can be taken: this is ENABLED <<Iterate>>_vars, every pass changing
\* `iterations`
CanIterate == prog = "iterate" /\ ipc = "loop" /\ iterations < MaxIterations

\* The loop always takes its next pass: weak fairness of Iterate, WF_vars(Iterate),
\* written out with CanIterate for ENABLED <<Iterate>>_vars.
SpecIterateFair == SpecIterate /\ ([]<>(~CanIterate) \/ []<><<Iterate>>_vars)

----------------------------------------------------------------------------
(* Claims about heredity.py                                                *)

RECURSIVE Pow(_, _)
Pow(b, e) == IF e = 0 THEN 1 ELSE b * Pow(b, e - 1)

Observed == {person \in names : people[person].trait # "None"}

AtHypothesis ==
    /\ prog = "heredity" /\ hpc = "enumerate"
    /\ ti <= Len(subsets)
    /\ ~fails_evidence(cur_have_trait)

\* C1: over k people of whom m have an observed trait, the loops of main call
\* joint_probability/update on pairwise distinct hypotheses, one_gene and
\* two_genes disjoint in each, and on exactly 6^k / 2^m of them in all.
C1_HypothesisCount ==
    prog = "heredity" =>
        /\ Cardinality(seen) = calls
        /\ \A h \in seen : h[1] \cap h[2] = {}
        /\ hpc # "enumerate" =>
               calls * Pow(2, Cardinality(Observed)) = Pow(6, Len(people))

C1_Witness ==
    /\ prog = "heredity" /\ hpc = "done"
    /\ Len(people) = 3 /\ Cardinality(Observed) = 1 /\ calls = 108

\* C2: for a person whose trait is observed, the bucket of the opposite value
\* holds exactly 0 after every prefix of the enumeration, and after normalize
\* the observed value has probability 1 and the other 0.
C2_EvidenceExact ==
    prog = "heredity" =>
        \A person \in Observed :
            LET obs == people[person].trait = "True"
                dist == probabilities[person].trait
            IN  /\ hpc = "enumerate" => dist[~obs] = <<>>
                /\ hpc # "enumerate" =>
                       /\ hpc = "done"
                       /\ dist[obs][1] = dist[obs][2]
                       /\ dist[obs][2] # <<>>
                       /\ dist[~obs][1] = <<>>

C2_Witness ==
    /\ prog = "heredity" /\ hpc = "done" /\ Len(people) = 3
    /\ people[1].mother = 2 /\ people[1].father = 3
    /\ people[1].trait = "True" /\ people[2].trait = "False"
    /\ probabilities[1].trait[TRUE][1] # <<>>

\* mother and father are both absent, or both name people of the pedigree
WellFormed ==
    \A person \in names :
        \/ people[person].mother = NoneName /\ people[person].father = NoneName
        \/ people[person].mother \in names /\ people[person].father \in names

GeneCount(person, one_gene, two_genes) ==
    IF person \in two_genes THEN 2 ELSE IF person \in one_gene THEN 1 ELSE 0

\* P(gene count | parents), as the claim states it: in hundredths for a person
\* without parents, in ten-thousandths for a person with parents
GeneGivenParents(person, one_gene, two_genes) ==
    LET c == GeneCount(person, one_gene, two_genes)
        Passing(parent) ==
            CASE GeneCount(parent, one_gene, two_genes) = 2 -> 100 - 1
              [] GeneCount(parent, one_gene, two_genes) = 1 -> 50
              [] GeneCount(parent, one_gene, two_genes) = 0 -> 1
        pm == Passing(people[person].mother)
        pf == Passing(people[person].father)
    IN  IF people[person].mother = NoneName
        THEN CASE c = 0 -> 96 [] c = 1 -> 3 [] c = 2 -> 1
        ELSE CASE c = 2 -> pm * pf
               [] c = 1 -> pm * (100 - pf) + (100 - pm) * pf
               [] c = 0 -> (100 - pm) * (100 - pf)

RECURSIVE ProductOverPersons(_, _, _, _)
ProductOverPersons(S, one_gene, two_genes, have_trait) ==
    IF S = {} THEN <<1>>
    ELSE LET person == CHOOSE x \in S : \A y \in S : y <= x
             rest == ProductOverPersons(S \ {person}, one_gene, two_genes, have_trait)
             has == person \in have_trait
             penetrance == PROBS_trait[GeneCount(person, one_gene, two_genes)][has]
         IN  BMul(BMul(rest, penetrance),
                  GeneGivenParents(person, one_gene, two_genes))

\* C3: joint_probability returns the product over all persons of
\* P(gene count | parents) * P(trait | gene count), with the prior for a person
\* without parents and pm*pf, pm*(1-pf) + (1-pm)*pf, (1-pm)*(1-pf) for a person
\* with parents.
C3_JointIsProduct ==
    (AtHypothesis /\ WellFormed) =>
        joint_probability(cur_one_gene, cur_two_genes, cur_have_trait)
            = ProductOverPersons(names, cur_one_gene, cur_two_genes, cur_have_trait)

C3_Witness ==
    /\ AtHypothesis /\ calls > 0
    /\ Len(people) = 3 /\ people[1].mother = 2 /\ people[1].father = 3
    /\ cur_one_gene = {1, 3} /\ cur_two_genes = {2} /\ cur_have_trait = {1}

Malformed ==
    \E person \in names :
        \/ people[person].mother \notin names \cup {NoneName}
        \/ people[person].father \notin names \cup {NoneName}
        \/ (people[person].mother = NoneName) # (people[person].father = NoneName)

\* C4: a malformed pedigree (an unknown parent, or only one parent given) ends
\* the run in an error before any joint probability is computed, and no
\* marginal table is produced.
C4_MalformedIsFatal ==
    (prog = "heredity" /\ Malformed) => (calls = 0 /\ hpc # "done")

----------------------------------------------------------------------------
(* Claims about pagerank.py                                                *)

RECURSIVE SumOver(_, _)
SumOver(f, S) ==
    IF S = {} THEN 0
    ELSE LET x == CHOOSE y \in S : TRUE IN f[x] + SumOver(f, S \ {x})

\* C5: along every random walk of sample_pagerank the visit counts sum to the
\* number of samples drawn so far, so the returned values sum to exactly 1
\* and each lies in [0, 1].
C5_CountsSumToDrawn ==
    prog = "sample" =>
        /\ SumOver(sample_count, DOMAIN sample_count) = drawn
        /\ spc = "done" =>
               /\ SumOver([page \in DOMAIN ranks |-> ranks[page][1]], DOMAIN ranks) = n
               /\ \A page \in DOMAIN ranks :
                     /\ ranks[page][2] = n
                     /\ 0 <= ranks[page][1] /\ ranks[page][1] <= ranks[page][2]

C5_Witness ==
    /\ prog = "sample" /\ spc = "done" /\ n = 3
    /\ Len(corpus) = 2 /\ DOMAIN ranks = {1, 2}
    /\ ranks[1][1] = 2 /\ ranks[2][1] = 1

\* C6: the mapping sample_pagerank returns has exactly the pages of the corpus
\* as its keys (a page the walk never visits is present, with value 0).
C6_EveryPageIsAKey ==
    (prog = "sample" /\ spc = "done") => DOMAIN ranks = pages

Dangling == {page \in pages : corpus[page] = {}}

\* C7: the rank vector of iterate_pagerank sums to 1 at initialisation and
\* after every iteration (dangling pages included), with no negative value.
C7_RanksSumToOne ==
    prog = "iterate" =>
        /\ BSum(pagerank.num, pages) = pagerank.den
        /\ pagerank.den # <<>>
        /\ \A page \in pages : \A k \in DOMAIN pagerank.num[page] :
              pagerank.num[page][k] >= 0

C7_Witness ==
    /\ prog = "iterate" /\ ipc = "done" /\ iterations >= 3
    /\ damping = DAMPING /\ Dangling # {} /\ Dangling # pages

\* the vector one more step of the recurrence gives from the current one
one_more_step == new_pagerank(corpus, pagerank, damping)

\* C8 as claimed: one more step of the recurrence changes no value of the
\* returned vector by more than the threshold 0.001.
C8_FixedPointWithinThreshold ==
    (prog = "iterate" /\ ipc = "done") =>
        \A next \in {one_more_step} :
            \A page \in pages :
                ~BLess(next.den,
                       BMul(change(pagerank, next, page, damping[2] * Unit(corpus)),
                            ThresholdInv))

\* C8 as amended: the returned vector differs from the vector of the pass
\* before it by strictly less than 0.001 in every page, and one more step
\* changes no value by more than d * N / 2 times 0.001.
C8_LastPassWithinThreshold ==
    (prog = "iterate" /\ ipc = "done") =>
        \A next \in {one_more_step} :
            /\ \A page \in pages :
                  BLess(BMul(change(previous, pagerank, page,
                                    damping[2] * Unit(corpus)), ThresholdInv),
                        pagerank.den)
            /\ \A page \in pages :
                  ~BLess(BMul(BMul(next.den, damping[1]), Len(corpus)),
                         BMul(BMul(BMul(change(pagerank, next, page,
                                               damping[2] * Unit(corpus)),
                                        ThresholdInv), 2), damping[2]))

C8_Witness ==
    /\ prog = "iterate" /\ ipc = "done" /\ damping = DAMPING
    /\ corpus = Funnel(2, 2)
    /\ ~C8_FixedPointWithinThreshold

\* C9: the convergence loop of iterate_pagerank terminates.
C9_Terminates == <>(prog = "iterate" /\ ipc = "done")

C9_Witness ==
    /\ prog = "iterate" /\ ipc = "done" /\ iterations > 10
    /\ damping = DAMPING

RECURSIVE RankWeightedSum(_, _, _)
\* the sum over the pages from i on of rank[i] * row[i][page], for the ranks
\* the last pass started from
RankWeightedSum(row, i, page) ==
    IF i > Len(corpus) THEN <<>>
    ELSE BAdd(BMul(previous.num[i], row[i][page]), RankWeightedSum(row, i + 1, page))

\* C10: transition_model(corpus, i, d)[p] is (1-d)/N + d * c(i, p) with c the
\* contribution per unit of rank that iterate_pagerank uses, a dangling page i
\* giving 1/N to every page; so each row sums to 1 and every pass of
\* iterate_pagerank gives the rank-weighted sum of the rows (the ranks it
\* starts from summing to 1).
C10_SameDanglingRule ==
    prog = "iterate" =>
        \A row \in {[i \in pages |-> transition_model(corpus, i, damping)]} :
            /\ \A i \in pages : \A page \in pages :
                  row[i][page]
                      = (damping[2] - damping[1]) * (Unit(corpus) \div Len(corpus))
                        + link_weight(corpus, i, page, damping)
            /\ \A i \in pages : SumOver(row[i], pages) = damping[2] * Unit(corpus)
            /\ (iterations > 0 /\ BSum(previous.num, pages) = previous.den) =>
                  \A page \in pages :
                      pagerank.num[page] = RankWeightedSum(row, 1, page)

C10_Witness ==
    /\ prog = "iterate" /\ iterations >= 2 /\ damping = DAMPING
    /\ Len(corpus) = 3 /\ corpus[1] = {} /\ corpus[2] = {1, 3}

====
